---------------------------- MODULE Spec2Model ----------------------------
(***************************************************************************)
(* A model of two stages of libhxl-python:                                 *)
(*   - SortFilter          (src/hxl/old_filters/sort.py)                   *)
(*   - hxlcount            (src/hxl/commands/hxlcount.py)                  *)
(*                                                                         *)
(* Strings are sequences of one-character strings, so that Python's string *)
(* comparison, str.upper, str.zfill, str.endswith, float() and str(float)  *)
(* are computed character by character.                                    *)
(***************************************************************************)
EXTENDS Integers, Sequences, FiniteSets, TLC

(***************************************************************************)
(* Bounds of the model.                                                    *)
(***************************************************************************)
\* longest upstream / input dataset, in rows
MaxRows == 2
\* how many times hxlcount is called with the same tag list object
MaxCalls == 2

(***************************************************************************)
(* Python strings.                                                         *)
(***************************************************************************)
Digits == <<"0", "1", "2", "3", "4", "5", "6", "7", "8", "9">>
LowerCase == <<"a", "b", "c", "d", "e", "f", "g", "h", "i", "j", "k", "l", "m",
               "n", "o", "p", "q", "r", "s", "t", "u", "v", "w", "x", "y", "z">>
UpperCase == <<"A", "B", "C", "D", "E", "F", "G", "H", "I", "J", "K", "L", "M",
               "N", "O", "P", "Q", "R", "S", "T", "U", "V", "W", "X", "Y", "Z">>

Range(s) == {s[i] : i \in 1..Len(s)}
IndexOf(s, c) == CHOOSE i \in 1..Len(s) : s[i] = c
IsDigit(c) == c \in Range(Digits)
IsLower(c) == c \in Range(LowerCase)
IsUpper(c) == c \in Range(UpperCase)

\* ord(c): the code point of a character
Code(c) ==
    IF IsDigit(c) THEN 47 + IndexOf(Digits, c)
    ELSE IF IsUpper(c) THEN 64 + IndexOf(UpperCase, c)
    ELSE IF IsLower(c) THEN 96 + IndexOf(LowerCase, c)
    ELSE CASE c = " " -> 32
           [] c = "!" -> 33
           [] c = "#" -> 35
           [] c = "+" -> 43
           [] c = "-" -> 45
           [] c = "." -> 46
           [] c = "/" -> 47
           [] c = "_" -> 95

Min(a, b) == IF a < b THEN a ELSE b

\* a < b for two str: code point by code point, a proper prefix is smaller
StrLess(a, b) ==
    \E k \in 1..(Min(Len(a), Len(b)) + 1) :
        /\ \A i \in 1..(k - 1) : a[i] = b[i]
        /\ \/ k <= Len(a) /\ k <= Len(b) /\ Code(a[k]) < Code(b[k])
           \/ k = Len(a) + 1 /\ k <= Len(b)

\* a < b for two lists (or tuples) of str
ListLess(a, b) ==
    \E k \in 1..(Min(Len(a), Len(b)) + 1) :
        /\ \A i \in 1..(k - 1) : a[i] = b[i]
        /\ \/ k <= Len(a) /\ k <= Len(b) /\ StrLess(a[k], b[k])
           \/ k = Len(a) + 1 /\ k <= Len(b)

\* str.upper()
Upper(s) ==
    [i \in 1..Len(s) |->
        IF IsLower(s[i]) THEN UpperCase[IndexOf(LowerCase, s[i])] ELSE s[i]]

\* str.endswith(suffix)
EndsWith(s, suffix) ==
    /\ Len(suffix) <= Len(s)
    /\ SubSeq(s, Len(s) - Len(suffix) + 1, Len(s)) = suffix

Reverse(s) == [i \in 1..Len(s) |-> s[Len(s) + 1 - i]]

Zeros(n) == [i \in 1..n |-> "0"]

\* the width of the numeric sort key: .zfill(15)
ZfillWidth == 15

\* str.zfill(width): zeros go after a leading sign
Zfill(s, width) ==
    IF Len(s) >= width THEN s
    ELSE IF Len(s) > 0 /\ s[1] \in {"+", "-"}
         THEN <<s[1]>> \o Zeros(width - Len(s)) \o Tail(s)
         ELSE Zeros(width - Len(s)) \o s

(***************************************************************************)
(* float(str) and str(float), for decimal literals without exponent.       *)
(* A float is [neg, num, exp]: the value (-1)^neg * num / 10^exp.  The     *)
(* literals of the model have at most 15 significant digits and a          *)
(* magnitude in [1e-4, 1e16), where str(float(s)) is the shortest decimal  *)
(* numeral of the value, in positional notation.                           *)
(***************************************************************************)
HasSign(s) == Len(s) > 0 /\ s[1] \in {"+", "-"}
Unsigned(s) == IF HasSign(s) THEN Tail(s) ELSE s
Dots(s) == {i \in 1..Len(s) : s[i] = "."}
IntPart(s) == IF Dots(s) = {} THEN s ELSE SubSeq(s, 1, (CHOOSE i \in Dots(s) : TRUE) - 1)
FracPart(s) ==
    IF Dots(s) = {} THEN <<>> ELSE SubSeq(s, (CHOOSE i \in Dots(s) : TRUE) + 1, Len(s))
AllDigits(s) == \A i \in 1..Len(s) : IsDigit(s[i])

\* float(s) does not raise ValueError
IsFloatLiteral(s) ==
    /\ Cardinality(Dots(Unsigned(s))) <= 1
    /\ AllDigits(IntPart(Unsigned(s)))
    /\ AllDigits(FracPart(Unsigned(s)))
    /\ Len(IntPart(Unsigned(s))) + Len(FracPart(Unsigned(s))) >= 1

RECURSIVE DigitsValue(_)
DigitsValue(s) ==
    IF s = <<>> THEN 0
    ELSE 10 * DigitsValue(SubSeq(s, 1, Len(s) - 1)) + (Code(s[Len(s)]) - 48)

RECURSIVE Pow10(_)
Pow10(n) == IF n = 0 THEN 1 ELSE 10 * Pow10(n - 1)

RECURSIVE NatStr(_)
NatStr(n) == IF n < 10 THEN <<Digits[n + 1]>> ELSE NatStr(n \div 10) \o <<Digits[(n % 10) + 1]>>

RECURSIVE StripTrailingZeros(_)
StripTrailingZeros(s) ==
    IF s # <<>> /\ s[Len(s)] = "0" THEN StripTrailingZeros(SubSeq(s, 1, Len(s) - 1)) ELSE s

\* float(s), for s with IsFloatLiteral(s)
Float(s) ==
    [neg |-> Len(s) > 0 /\ s[1] = "-",
     num |-> DigitsValue(IntPart(Unsigned(s)) \o FracPart(Unsigned(s))),
     exp |-> Len(FracPart(Unsigned(s)))]

\* x < y for two floats
FloatLess(x, y) ==
    LET sx == (IF x.neg THEN 0 - x.num ELSE x.num) * Pow10(y.exp)
        sy == (IF y.neg THEN 0 - y.num ELSE y.num) * Pow10(x.exp)
    IN  sx < sy

\* str(x): sign, integer digits, the point, the fraction without trailing zeros
FloatStr(x) ==
    LET whole == x.num \div Pow10(x.exp)
        fracv == x.num % Pow10(x.exp)
        fracs == NatStr(fracv)
        frac  == StripTrailingZeros(Zeros(x.exp - Len(fracs)) \o fracs)
    IN  (IF x.neg THEN <<"-">> ELSE <<>>) \o NatStr(whole) \o <<".">>
            \o (IF x.exp = 0 \/ frac = <<>> THEN <<"0">> ELSE frac)

(***************************************************************************)
(* dateutil.parser.parse(s).strftime('%Y-%m-%d'), for the layouts          *)
(* YYYY-MM-DD and YYYY/MM/DD; a string without any digit is no date.       *)
(***************************************************************************)
IsLeap(y) == (y % 4 = 0 /\ y % 100 # 0) \/ y % 400 = 0
DaysIn(y, m) ==
    IF m = 2 THEN (IF IsLeap(y) THEN 29 ELSE 28)
    ELSE IF m \in {4, 6, 9, 11} THEN 30 ELSE 31

IsDateLiteral(s) ==
    /\ Len(s) = 10
    /\ s[5] \in {"-", "/"} /\ s[8] = s[5]
    /\ AllDigits(SubSeq(s, 1, 4)) /\ AllDigits(SubSeq(s, 6, 7)) /\ AllDigits(SubSeq(s, 9, 10))
    /\ DigitsValue(SubSeq(s, 1, 4)) >= 1
    /\ DigitsValue(SubSeq(s, 6, 7)) \in 1..12
    /\ DigitsValue(SubSeq(s, 9, 10)) \in
           1..DaysIn(DigitsValue(SubSeq(s, 1, 4)), DigitsValue(SubSeq(s, 6, 7)))

ZeroPad(n, width) == Zfill(NatStr(n), width)

\* the normalised date, for s with IsDateLiteral(s)
DateKey(s) ==
    ZeroPad(DigitsValue(SubSeq(s, 1, 4)), 4) \o <<"-">>
        \o ZeroPad(DigitsValue(SubSeq(s, 6, 7)), 2) \o <<"-">>
        \o ZeroPad(DigitsValue(SubSeq(s, 9, 10)), 2)


(***************************************************************************)
(* Hashtags, tag patterns, rows.                                           *)
(***************************************************************************)
TagOrg == <<"#", "o", "r", "g">>
TagAdm1 == <<"#", "a", "d", "m", "1">>
TagSector == <<"#", "s", "e", "c", "t", "o", "r">>
TagLoc == <<"#", "l", "o", "c">>
TagNum == <<"#", "x", "_", "n", "u", "m">>
TagDeg == <<"#", "y", "_", "d", "e", "g">>
TagDate == <<"#", "x", "_", "d", "a", "t", "e">>
\* well-formed tags that no column of the modelled datasets carries
TagNoNum == <<"#", "z", "_", "n", "u", "m">>
TagNoDate == <<"#", "z", "_", "d", "a", "t", "e">>
\* a malformed tag pattern: no hashtag leader, a blank inside
TagBad == <<"a", "d", "m", " ", "1">>
\* '#x_total_num'
TagTotal == <<"#", "x", "_", "t", "o", "t", "a", "l", "_", "n", "u", "m">>

SuffixNum == <<"_", "n", "u", "m">>
SuffixDeg == <<"_", "d", "e", "g">>
SuffixDate == <<"_", "d", "a", "t", "e">>

\* TagPattern.parse(text) succeeds: '#', a letter, then letters, digits, '_'
IsPattern(text) ==
    /\ Len(text) >= 2
    /\ text[1] = "#"
    /\ IsLower(text[2]) \/ IsUpper(text[2])
    /\ \A i \in 3..Len(text) :
           IsLower(text[i]) \/ IsUpper(text[i]) \/ IsDigit(text[i]) \/ text[i] = "_"

\* hxl.common.pattern_list(tags): the parsed patterns; raises on a malformed one
pattern_list_raises(tags) == \E i \in 1..Len(tags) : ~IsPattern(tags[i])
pattern_list(tags) == [i \in 1..Len(tags) |-> [tag |-> tags[i]]]

\* the value under the first column that carries the tag and for which the
\* row has a cell, or absent (None for get_value, False for Row.get)
Absent == [present |-> FALSE, text |-> <<>>]
Present(text) == [present |-> TRUE, text |-> text]
FirstMatch(columns, values, tag) ==
    LET hits == {i \in 1..Min(Len(columns), Len(values)) : columns[i] = tag}
    IN  IF hits = {} THEN Absent
        ELSE Present(values[CHOOSE i \in hits : \A j \in hits : i <= j])

\* small strings for the cells
EmptyStr == <<>>
Date2020 == <<"2", "0", "2", "0", "-", "0", "1", "-", "1", "5">>
Date2019 == <<"2", "0", "1", "9", "/", "1", "2", "/", "0", "1">>

\* the cells a column of the given hashtag takes in the modelled datasets
CellDomain(tag) ==
    IF tag = TagOrg THEN {<<"a">>, <<"A">>, <<"b">>, EmptyStr}
    ELSE IF tag = TagNum
         THEN {<<"1">>, <<"2">>, <<"1", "0">>, <<"-", "1">>, <<"-", "2">>,
               <<"a", "b">>, EmptyStr}
    ELSE IF tag = TagDeg THEN {<<"2">>, <<"1", "0">>, <<"a", "b">>}
    ELSE IF tag = TagDate THEN {Date2020, Date2019, <<"a", "b">>, EmptyStr}
    ELSE {<<"p">>, <<"q">>}

\* all sequences over S of length at most n
SeqsUpTo(S, n) == UNION {[1..k -> S] : k \in 0..n}

VARIABLES
    source,       \* SortFilter.source: [columns, rows], the upstream dataset
    ctor_tags,    \* the tags argument of SortFilter.__init__
    sort_tags,    \* SortFilter.sort_tags
    reverse,      \* SortFilter.reverse
    spc,          \* where the SortFilter is
    buffer,       \* the rows sorted() has pulled from the source so far
    sorted_idx,   \* the sorted list, as positions of buffer
    yielded,      \* the rows the iterator has handed to the consumer
    input,        \* hxlcount: [columns, rows] behind HXLReader(input)
    tags,         \* hxlcount: the caller's tag list object
    requested,    \* the tags the caller put in that list
    cpc,          \* where hxlcount is
    read,         \* how many rows the for loop has taken from the parser
    stats,        \* hxlcount: stats, its [key, count] items in insertion order
    pending,      \* sorted(stats.items()) not yet written
    output,       \* the rows written to output, per call
    calls         \* hxlcount calls started

sortVars == <<source, ctor_tags, sort_tags, reverse, spc, buffer, sorted_idx, yielded>>
countVars == <<input, tags, requested, cpc, read, stats, pending, output, calls>>
vars == <<sortVars, countVars>>

(***************************************************************************)
(* SortFilter                                                              *)
(***************************************************************************)
\* SortFilter.columns
columns == source.columns

\* pattern.get_value(row)
pattern_get_value(pattern, row) == FirstMatch(source.columns, row, pattern.tag)

IsNumeric(pattern) == EndsWith(pattern.tag, SuffixNum) \/ EndsWith(pattern.tag, SuffixDeg)
IsDate(pattern) == EndsWith(pattern.tag, SuffixDate)

\* as get_value_raises, with the ValueError of float() not caught
get_value_raises_strict(pattern, row) ==
    LET raw_value == pattern_get_value(pattern, row)
    IN  IF IsNumeric(pattern)
        THEN ~raw_value.present \/ ~IsFloatLiteral(raw_value.text)
        ELSE IF IsDate(pattern)
             THEN ~raw_value.present \/ ~IsDateLiteral(raw_value.text)
             ELSE FALSE

\* get_value(pattern) raises: float(None) is a TypeError, which except
\* ValueError lets through; dateutil raises on None and on what is no date
get_value_raises(pattern, row) ==
    LET raw_value == pattern_get_value(pattern, row)
    IN  IF IsNumeric(pattern) THEN ~raw_value.present
        ELSE IF IsDate(pattern)
             THEN ~raw_value.present \/ ~IsDateLiteral(raw_value.text)
             ELSE FALSE

\* get_value(pattern), when it does not raise
get_value(pattern, row) ==
    LET raw_value == pattern_get_value(pattern, row)
        value ==
            IF IsNumeric(pattern)
            THEN IF IsFloatLiteral(raw_value.text)
                 THEN Zfill(FloatStr(Float(raw_value.text)), ZfillWidth)
                 ELSE raw_value.text
            ELSE IF IsDate(pattern) THEN DateKey(raw_value.text)
            ELSE raw_value.text
    IN  IF raw_value.present /\ value # EmptyStr THEN Upper(value) ELSE EmptyStr

make_key_raises(row) ==
    \E i \in 1..Len(sort_tags) : get_value_raises(sort_tags[i], row)

make_key(row) ==
    IF sort_tags # <<>>
    THEN [i \in 1..Len(sort_tags) |-> get_value(sort_tags[i], row)]
    ELSE row

\* list.sort: binary insertion keeps an element behind the equal ones before it
RECURSIVE StableSort(_)
StableSort(idx) ==
    IF Len(idx) <= 1 THEN idx
    ELSE LET front == StableSort(SubSeq(idx, 1, Len(idx) - 1))
             x == idx[Len(idx)]
             after == {k \in 1..Len(front) :
                          ListLess(make_key(buffer[x]), make_key(buffer[front[k]]))}
             at == IF after = {} THEN Len(front) + 1
                   ELSE CHOOSE k \in after : \A j \in after : k <= j
         IN  SubSeq(front, 1, at - 1) \o <<x>> \o SubSeq(front, at, Len(front))

\* as sorted, with the sorted list reversed afterwards
sorted_reverse_after(n) ==
    LET idx == [i \in 1..n |-> i]
    IN  IF reverse THEN Reverse(StableSort(idx)) ELSE StableSort(idx)

\* as sorted, keeping one row per key
sorted_unique(n) ==
    LET idx == [i \in 1..n |-> i]
        all == IF reverse THEN Reverse(StableSort(Reverse(idx))) ELSE StableSort(idx)
    IN  SelectSeq(all, LAMBDA i :
            \A j \in 1..(i - 1) : make_key(buffer[j]) # make_key(buffer[i]))

\* sorted(self.source, key=make_key, reverse=self.reverse), as positions of
\* buffer: with reverse the list is reversed, sorted, and reversed again
sorted(n) ==
    LET idx == [i \in 1..n |-> i]
    IN  IF reverse THEN Reverse(StableSort(Reverse(idx))) ELSE StableSort(idx)

SortColumns == {<<k, TagAdm1>> : k \in {TagOrg, TagNum, TagDeg, TagDate}}
SortRowsOf(cols) == {<<v, l>> : v \in CellDomain(cols[1]), l \in CellDomain(cols[2])}
SortTagLists(cols) ==
    {<<>>, <<cols[1]>>, <<cols[1], cols[2]>>, <<cols[2], cols[1]>>,
     <<TagNoNum>>, <<TagNoDate>>, <<cols[1], TagBad>>}

SortIdle ==
    /\ source = [columns |-> <<>>, rows |-> <<>>]
    /\ ctor_tags = <<>> /\ sort_tags = <<>> /\ reverse = FALSE
    /\ spc = "unused" /\ buffer = <<>> /\ sorted_idx = <<>> /\ yielded = <<>>

SortInit ==
    /\ \E cols \in SortColumns :
          /\ \E rows \in SeqsUpTo(SortRowsOf(cols), MaxRows) :
                source = [columns |-> cols, rows |-> rows]
          /\ ctor_tags \in SortTagLists(cols)
    /\ reverse \in BOOLEAN
    /\ sort_tags = <<>>
    /\ spc = "new"
    /\ buffer = <<>> /\ sorted_idx = <<>> /\ yielded = <<>>

\* SortFilter.__init__
SortFilter_init ==
    /\ spc = "new"
    /\ IF pattern_list_raises(ctor_tags)
       THEN spc' = "invalid_pattern" /\ UNCHANGED sort_tags
       ELSE spc' = "constructed" /\ sort_tags' = pattern_list(ctor_tags)
    /\ UNCHANGED <<source, ctor_tags, reverse, buffer, sorted_idx, yielded>>
    /\ UNCHANGED countVars

\* __iter__ is called: sorted() starts to read the source
SortFilter_iter ==
    /\ spc = "constructed"
    /\ spc' = "pulling"
    /\ UNCHANGED <<source, ctor_tags, sort_tags, reverse, buffer, sorted_idx, yielded>>
    /\ UNCHANGED countVars

\* sorted() takes the next row of the source
SortFilter_pull ==
    /\ spc = "pulling"
    /\ source.rows # <<>>
    /\ buffer' = Append(buffer, Head(source.rows))
    /\ source' = [source EXCEPT !.rows = Tail(source.rows)]
    /\ UNCHANGED <<ctor_tags, sort_tags, reverse, spc, sorted_idx, yielded>>
    /\ UNCHANGED countVars

\* as SortFilter_sort, sorting what has been pulled so far
SortFilter_sort_early ==
    /\ spc = "pulling"
    /\ IF \E i \in 1..Len(buffer) : make_key_raises(buffer[i])
       THEN spc' = "error" /\ UNCHANGED sorted_idx
       ELSE spc' = "yielding" /\ sorted_idx' = sorted(Len(buffer))
    /\ UNCHANGED <<source, ctor_tags, sort_tags, reverse, buffer, yielded>>
    /\ UNCHANGED countVars

\* the source is exhausted: the keys are made, the list is sorted, iter() of it
\* is returned; a key that raises ends __iter__ with the exception
SortFilter_sort ==
    /\ spc = "pulling"
    /\ source.rows = <<>>
    /\ IF \E i \in 1..Len(buffer) : make_key_raises(buffer[i])
       THEN spc' = "error" /\ UNCHANGED sorted_idx
       ELSE spc' = "yielding" /\ sorted_idx' = sorted(Len(buffer))
    /\ UNCHANGED <<source, ctor_tags, sort_tags, reverse, buffer, yielded>>
    /\ UNCHANGED countVars

\* the consumer takes the next row of the iterator
SortFilter_next ==
    /\ spc = "yielding"
    /\ Len(yielded) < Len(sorted_idx)
    /\ yielded' = Append(yielded, buffer[sorted_idx[Len(yielded) + 1]])
    /\ UNCHANGED <<source, ctor_tags, sort_tags, reverse, spc, buffer, sorted_idx>>
    /\ UNCHANGED countVars

\* the iterator is exhausted
SortFilter_stop ==
    /\ spc = "yielding"
    /\ Len(yielded) = Len(sorted_idx)
    /\ spc' = "done"
    /\ UNCHANGED <<source, ctor_tags, sort_tags, reverse, buffer, sorted_idx, yielded>>
    /\ UNCHANGED countVars

(***************************************************************************)
(* hxlcount                                                                *)
(***************************************************************************)
\* row.get(tag): the value, or absent (False)
row_get(row, tag) == FirstMatch(input.columns, row, tag)

\* the values of a row under the tags, the absent ones left out
RECURSIVE row_values(_, _)
row_values(row, tagList) ==
    IF tagList = <<>> THEN <<>>
    ELSE LET value == row_get(row, Head(tagList))
         IN  (IF value.present THEN <<value.text>> ELSE <<>>)
                 \o row_values(row, Tail(tagList))

\* stats.get(key): the count under the key, 0 for None
stats_get(st, key) ==
    IF \E i \in 1..Len(st) : st[i].key = key
    THEN st[CHOOSE i \in 1..Len(st) : st[i].key = key].count
    ELSE 0

\* as count_row, with a key that is already there set to 1 again
count_row_no_increment(st, row, tagList) ==
    LET values == row_values(row, tagList)
    IN  IF values # <<>>
        THEN IF stats_get(st, values) # 0
             THEN [i \in 1..Len(st) |->
                      IF st[i].key = values
                      THEN [st[i] EXCEPT !.count = 1] ELSE st[i]]
             ELSE Append(st, [key |-> values, count |-> 1])
        ELSE st

\* the body of the for loop, on stats (a dict: its items in insertion order)
count_row(st, row, tagList) ==
    LET values == row_values(row, tagList)
    IN  IF values # <<>>
        THEN IF stats_get(st, values) # 0
             THEN [i \in 1..Len(st) |->
                      IF st[i].key = values
                      THEN [st[i] EXCEPT !.count = @ + 1] ELSE st[i]]
             ELSE Append(st, [key |-> values, count |-> 1])
        ELSE st

\* (key, count) < (key', count') for two items of stats
ItemLess(a, b) == ListLess(a.key, b.key) \/ (a.key = b.key /\ a.count < b.count)

\* as sorted_items, with the items left in insertion order
sorted_items_unsorted(items) == items

\* sorted(stats.items())
RECURSIVE sorted_items(_)
sorted_items(items) ==
    IF Len(items) <= 1 THEN items
    ELSE LET front == sorted_items(SubSeq(items, 1, Len(items) - 1))
             x == items[Len(items)]
             after == {k \in 1..Len(front) : ItemLess(x, front[k])}
             at == IF after = {} THEN Len(front) + 1
                   ELSE CHOOSE k \in after : \A j \in after : k <= j
         IN  SubSeq(front, 1, at - 1) \o <<x>> \o SubSeq(front, at, Len(front))

\* data = list(aggregate[0]); data.append(aggregate[1]), as csv.writer writes it
data_row(aggregate) == aggregate.key \o <<NatStr(aggregate.count)>>

CountColumns == <<TagSector, TagAdm1>>
CountCells == {<<"A">>, <<"B">>, EmptyStr}
\* a row may be shorter than the header
CountRows == SeqsUpTo(CountCells, Len(CountColumns))
CountTagLists ==
    {<<>>, <<TagSector>>, <<TagSector, TagAdm1>>, <<TagAdm1, TagSector>>,
     <<TagLoc>>, <<TagLoc, TagAdm1>>, <<TagBad>>, <<TagSector, TagBad>>}

CountIdle ==
    /\ input = [columns |-> <<>>, rows |-> <<>>]
    /\ tags = <<>> /\ requested = <<>>
    /\ cpc = "unused" /\ read = 0 /\ stats = <<>> /\ pending = <<>>
    /\ output = <<>> /\ calls = 0

CountInit ==
    /\ \E rows \in SeqsUpTo(CountRows, MaxRows) :
          input = [columns |-> CountColumns, rows |-> rows]
    /\ requested \in CountTagLists
    /\ tags = requested
    /\ cpc = "idle" /\ read = 0 /\ stats = <<>> /\ pending = <<>>
    /\ output = <<>> /\ calls = 0

\* hxlcount(input, output, tags) is called, with a fresh reader (over the
\* same rows) and writer, and the caller's tag list object
hxlcount_call ==
    /\ cpc \in {"idle", "done"}
    /\ calls < MaxCalls
    /\ calls' = calls + 1
    /\ cpc' = "reading"
    /\ read' = 0 /\ stats' = <<>> /\ pending' = <<>>
    /\ output' = Append(output, <<>>)
    /\ UNCHANGED <<input, tags, requested>>
    /\ UNCHANGED sortVars

\* one turn of: for row in parser
hxlcount_row ==
    /\ cpc = "reading"
    /\ read < Len(input.rows)
    /\ read' = read + 1
    /\ stats' = count_row(stats, input.rows[read + 1], tags)
    /\ UNCHANGED <<input, tags, requested, cpc, pending, output, calls>>
    /\ UNCHANGED sortVars

\* the parser is exhausted: the hashtag row is written, the items are sorted
hxlcount_header ==
    /\ cpc = "reading"
    /\ read = Len(input.rows)
    /\ tags' = Append(tags, TagTotal)
    /\ output' = [output EXCEPT ![calls] = Append(@, tags')]
    /\ pending' = sorted_items(stats)
    /\ cpc' = "writing"
    /\ UNCHANGED <<input, requested, read, stats, calls>>
    /\ UNCHANGED sortVars

\* one turn of: for aggregate in sorted(stats.items())
hxlcount_write ==
    /\ cpc = "writing"
    /\ pending # <<>>
    /\ output' = [output EXCEPT ![calls] = Append(@, data_row(Head(pending)))]
    /\ pending' = Tail(pending)
    /\ UNCHANGED <<input, tags, requested, cpc, read, stats, calls>>
    /\ UNCHANGED sortVars

\* hxlcount returns
hxlcount_return ==
    /\ cpc = "writing"
    /\ pending = <<>>
    /\ cpc' = "done"
    /\ UNCHANGED <<input, tags, requested, read, stats, pending, output, calls>>
    /\ UNCHANGED sortVars

(***************************************************************************)
(* A run is one SortFilter over an upstream, or a caller of hxlcount.      *)
(***************************************************************************)
Init == (SortInit /\ CountIdle) \/ (SortIdle /\ CountInit)

Next ==
    \/ SortFilter_init
    \/ SortFilter_iter
    \/ SortFilter_pull
    \/ SortFilter_sort
    \/ SortFilter_next
    \/ SortFilter_stop
    \/ hxlcount_call
    \/ hxlcount_row
    \/ hxlcount_header
    \/ hxlcount_write
    \/ hxlcount_return

Spec == Init /\ [][Next]_vars

(***************************************************************************)
(* Properties                                                              *)
(***************************************************************************)
Front(s) == SubSeq(s, 1, Len(s) - 1)
Last(s) == s[Len(s)]
Occurrences(s, x) == Cardinality({i \in 1..Len(s) : s[i] = x})

\* the tag list handed to the running call: tags, without the appended total
TagsAtCall == IF cpc \in {"writing", "done"} THEN Front(tags) ELSE tags

\* the data rows the running call has written
DataRows == IF calls = 0 \/ output[calls] = <<>> THEN <<>> ELSE Tail(output[calls])

\* the tuple of the non-absent values of a row, in the order of the tags
TupleOf(row, tagList) ==
    LET idx == {i \in 1..Len(tagList) :
                   FirstMatch(input.columns, row, tagList[i]).present}
        nth(k) == CHOOSE i \in idx : Cardinality({j \in idx : j < i}) = k - 1
    IN  [k \in 1..Cardinality(idx) |->
            FirstMatch(input.columns, row, tagList[nth(k)]).text]

RECURSIVE SumTotals(_)
SumTotals(rows) ==
    IF rows = <<>> THEN 0 ELSE DigitsValue(Last(Head(rows))) + SumTotals(Tail(rows))

\* C1: when hxlcount has returned, it has written exactly one data row per
\* distinct non-empty tuple of non-absent values that some input row
\* produces, the count on the row is the number of input rows that produce
\* the tuple, and the counts add up to the input rows less the rows with no
\* value under any tag.
C1_CountsPerTuple ==
    cpc = "done" =>
        LET rows == input.rows
            tuple(j) == TupleOf(rows[j], TagsAtCall)
            produced == {tuple(j) : j \in 1..Len(rows)} \ {<<>>}
        IN  /\ \A i \in 1..Len(DataRows) :
                   /\ Front(DataRows[i]) \in produced
                   /\ Last(DataRows[i]) =
                          NatStr(Cardinality({j \in 1..Len(rows) :
                                                 tuple(j) = Front(DataRows[i])}))
            /\ \A t \in produced :
                   Cardinality({i \in 1..Len(DataRows) : Front(DataRows[i]) = t}) = 1
            /\ SumTotals(DataRows) =
                   Len(rows) - Cardinality({j \in 1..Len(rows) : tuple(j) = <<>>})

\* two input rows produced the same tuple and it was written with count 2
C1_Witness ==
    /\ cpc = "done"
    /\ Len(input.rows) >= 2
    /\ \E i \in 1..Len(DataRows) : Last(DataRows[i]) = <<"2">>

\* C2: the data rows hxlcount writes are in strictly ascending order of
\* their tuples, whatever the order the tuples came in and whatever their
\* counts, so no tuple is written twice.
C2_RowsAscending ==
    \A i, j \in 1..Len(DataRows) :
        i < j => ListLess(Front(DataRows[i]), Front(DataRows[j]))

\* the tuple that came first in the input is written second
C2_Witness ==
    /\ cpc = "done"
    /\ Len(DataRows) = 2
    /\ Len(stats) = 2
    /\ stats[1].key = Front(DataRows[2])

\* C3: in every call, the hashtag row is the tags the caller requested and
\* one trailing '#x_total_num', and the rows are grouped by the tags the
\* caller requested.
C3_HeaderIsRequestedTags ==
    /\ \A c \in 1..Len(output) :
           output[c] # <<>> => output[c][1] = requested \o <<TagTotal>>
    /\ (cpc = "reading" /\ read > 0) => tags = requested

\* C4: in the sorted list, two rows with equal keys keep the order they had
\* in the upstream, with and without reverse; two rows with unequal keys are
\* in the order of their keys, descending with reverse.
C4_StableSort ==
    spc \in {"yielding", "done"} =>
        \A i, j \in 1..Len(sorted_idx) :
            i < j =>
                LET ki == make_key(buffer[sorted_idx[i]])
                    kj == make_key(buffer[sorted_idx[j]])
                IN  IF ki = kj THEN sorted_idx[i] < sorted_idx[j]
                    ELSE IF reverse THEN ListLess(kj, ki) ELSE ListLess(ki, kj)

\* a reversed sort by a tag list has yielded two different rows with one key
C4_Witness ==
    /\ spc = "done"
    /\ reverse
    /\ sort_tags # <<>>
    /\ Len(yielded) = 2
    /\ yielded[1] # yielded[2]
    /\ make_key(yielded[1]) = make_key(yielded[2])

C5_State ==
    /\ spc \in {"yielding", "done"} =>
           /\ source.rows = <<>>
           /\ \A i \in 1..Len(yielded) : yielded[i] = buffer[sorted_idx[i]]
           /\ \A x \in Range(buffer) \cup Range(yielded) :
                  Occurrences(yielded, x) <= Occurrences(buffer, x)
    /\ spc = "done" =>
           /\ Len(yielded) = Len(buffer)
           /\ \A x \in Range(buffer) \cup Range(yielded) :
                  Occurrences(yielded, x) = Occurrences(buffer, x)
    /\ spc = "error" => buffer # <<>>

C5_Step ==
    /\ columns' = source.columns
    /\ buffer' \o source'.rows = buffer \o source.rows
    /\ \A i \in 1..Len(yielded) : i <= Len(yielded') /\ yielded'[i] = yielded[i]

\* C5: an iteration that returns yields every row of the upstream exactly
\* once and nothing else; the columns of the SortFilter are the columns of
\* the upstream all along; an empty upstream gives an empty output and no
\* error.
C5_PermutationSameColumns == [](C5_State) /\ [][C5_Step]_vars

\* two rows came out in the other order than they went in
C5_Witness ==
    /\ spc = "done"
    /\ Len(buffer) = 2
    /\ yielded = <<buffer[2], buffer[1]>>
    /\ buffer[1] # buffer[2]

\* C6: under a pattern ending in _num or _deg, the keys of two parsable
\* numbers are in the lexical order that is the numeric order of the numbers.
C6_NumericKeyOrder ==
    spc \in {"yielding", "done"} =>
        \A k \in 1..Len(sort_tags) : \A i, j \in 1..Len(buffer) :
            LET vi == pattern_get_value(sort_tags[k], buffer[i])
                vj == pattern_get_value(sort_tags[k], buffer[j])
            IN  (/\ IsNumeric(sort_tags[k])
                 /\ vi.present /\ IsFloatLiteral(vi.text)
                 /\ vj.present /\ IsFloatLiteral(vj.text))
                => (FloatLess(Float(vi.text), Float(vj.text))
                        <=> StrLess(get_value(sort_tags[k], buffer[i]),
                                    get_value(sort_tags[k], buffer[j])))

UnparsableNumber(pattern, value) ==
    IsNumeric(pattern) /\ value.present /\ ~IsFloatLiteral(value.text)
UnparsableDate(pattern, value) ==
    IsDate(pattern) /\ value.present /\ ~IsDateLiteral(value.text)
MissingTyped(pattern, value) ==
    (IsNumeric(pattern) \/ IsDate(pattern)) /\ ~value.present

\* some pattern of the tag list has such a value in some pulled row
SomeUnparsableNumber ==
    \E k \in 1..Len(sort_tags) : \E i \in 1..Len(buffer) :
        UnparsableNumber(sort_tags[k], pattern_get_value(sort_tags[k], buffer[i]))
SomeUnparsableDate ==
    \E k \in 1..Len(sort_tags) : \E i \in 1..Len(buffer) :
        UnparsableDate(sort_tags[k], pattern_get_value(sort_tags[k], buffer[i]))
SomeMissingTyped ==
    \E k \in 1..Len(sort_tags) : \E i \in 1..Len(buffer) :
        MissingTyped(sort_tags[k], pattern_get_value(sort_tags[k], buffer[i]))

\* C7: a value under a _num or _deg pattern that is no number does not raise
\* and its key is the upper-cased value, and it does not end the pass; a value
\* under a _date pattern that is no date ends the pass with an error and
\* without any row yielded.
C7_ExtractionFailures ==
    /\ \A k \in 1..Len(sort_tags) : \A i \in 1..Len(buffer) :
           UnparsableNumber(sort_tags[k], pattern_get_value(sort_tags[k], buffer[i]))
           => /\ ~get_value_raises(sort_tags[k], buffer[i])
              /\ get_value(sort_tags[k], buffer[i])
                     = Upper(pattern_get_value(sort_tags[k], buffer[i]).text)
    /\ spc = "error" => SomeUnparsableDate \/ SomeMissingTyped
    /\ (spc \in {"yielding", "done", "error"} /\ SomeUnparsableDate)
           => spc = "error" /\ yielded = <<>>

\* a pass with a value that is no number under a numeric pattern has finished
C7_Witness ==
    /\ spc = "done"
    /\ Len(yielded) = 2
    /\ SomeUnparsableNumber
    /\ \E i \in 1..2 : IsFloatLiteral(yielded[i][1])

\* C8: with a malformed tag pattern, SortFilter does not get constructed and
\* pulls no row, and hxlcount raises before it reads a row or writes anything.
C8_MalformedRejected ==
    /\ pattern_list_raises(ctor_tags) =>
           spc \in {"new", "invalid_pattern"} /\ buffer = <<>> /\ yielded = <<>>
    /\ pattern_list_raises(requested) =>
           /\ read = 0
           /\ \A c \in 1..Len(output) : output[c] = <<>>
           /\ cpc # "done"

\* C9: a missing value (no column for the pattern, or an empty cell) gives
\* the key '' without an error, under every kind of pattern, and the pass
\* completes.
C9_MissingIsEmptyKey ==
    /\ \A k \in 1..Len(sort_tags) : \A i \in 1..Len(buffer) :
           LET value == pattern_get_value(sort_tags[k], buffer[i])
           IN  (~value.present \/ value.text = EmptyStr)
               => /\ ~get_value_raises(sort_tags[k], buffer[i])
                  /\ get_value(sort_tags[k], buffer[i]) = EmptyStr

\* C10: the SortFilter yields no row, and hxlcount writes nothing, before the
\* upstream is exhausted; once something is out, no row is pulled.
C10_Blocking ==
    /\ (spc \in {"yielding", "done"} \/ yielded # <<>>) =>
           source.rows = <<>> /\ Len(sorted_idx) = Len(buffer)
    /\ \A c \in 1..Len(output) :
           output[c] # <<>> => c < calls \/ read = Len(input.rows)

\* the first of two rows has been yielded
C10_Witness ==
    /\ spc = "yielding"
    /\ Len(buffer) = 2
    /\ Len(yielded) = 1

=============================================================================
